---- MODULE Spec2Model ----
(***************************************************************************)
(* csv-migrator (src/src/main.rs): a command line tool that inserts a      *)
(* column into, or moves a column of, every *.csv file under a directory.  *)
(*                                                                         *)
(* A file's content is modelled as the sequence of records the csv crate   *)
(* parses from it (record 1 is the header); a field is a sequence of       *)
(* symbols, <<>> being the empty string.  The csv crate's Reader and       *)
(* Writer are modelled with the configuration the program builds them      *)
(* with: both are the default, non-flexible ones.                          *)
(***************************************************************************)
EXTENDS Integers, Sequences, FiniteSets, TLC

VARIABLES
    children,   \* directory path -> its entries, in directory-read order
    denied,     \* paths the process cannot read
    fs,         \* regular file path -> content on disk
    pc,         \* position of the process: idle, locate, loop, returned, done, panicked
    cmd,        \* the parsed Cli command of the current run
    files,      \* the Vec<PathBuf> returned by get_csv_files
    idx,        \* 1-based position of the for loop over files
    printed,    \* the status lines main has printed in the current run
    runs,       \* number of invocations of the program so far
    pre,        \* history: fs when the current run started
    opened,     \* history: paths the current run has opened
    migrated,   \* history: the files the current run processed with Ok, and their content then
    failure,    \* history: what failed in the current run: none, locate or file
    failedAt,   \* history: index in files of the file whose processing failed, 0 if none
    last        \* history: the last application of insert_column / shift_column

vars == <<children, denied, fs, pc, cmd, files, idx, printed, runs, pre, opened,
          migrated, failure, failedAt, last>>

(***************************************************************************)
(* Bounds of the model.                                                    *)
(***************************************************************************)
NumCols == 3    \* columns of the widest table of the initial file systems
NumRows == 2    \* data rows of the tables of the initial file systems
MaxRuns == 2    \* invocations of the program in one behaviour

\* Values of --order (an i32 the program does not validate): negative, zero,
\* in range, and one past the widest header.
Orders == (0 - 1)..(NumCols + 1)

(***************************************************************************)
(* Fields, records and tables.                                             *)
(***************************************************************************)
H(i) == <<"H", i>>            \* header field "H<i>"
V(r, i) == <<"V", r, i>>      \* value of row r in column i
NewColumn == <<"X">>           \* --column of insert
DefaultValue == <<"D">>        \* --default-value of insert
Absent == <<"Z">>              \* a column name no header contains
EmptyField == <<>>             \* the empty string

Table(n, m) ==
    <<[i \in 1..n |-> H(i)]>> \o [r \in 1..m |-> [i \in 1..n |-> V(r, i)]]

\* Table(n, m) with its last data row one field short / one field long.
ShortRow(n, m) ==
    [Table(n, m) EXCEPT ![m + 1] = SubSeq(@, 1, n - 1)]
LongRow(n, m) ==
    [Table(n, m) EXCEPT ![m + 1] = Append(@, V(m, n + 1))]

\* Every data row has the header's field count.
Rect(content) ==
    \A r \in 2..Len(content) : Len(content[r]) = Len(content[1])

(***************************************************************************)
(* Paths.  A path is identified by its file name, a sequence of            *)
(* characters.                                                             *)
(***************************************************************************)
Name(p) ==
    CASE p = "root"      -> <<"r", "o", "o", "t">>
      [] p = "a.csv"     -> <<"a", ".", "c", "s", "v">>
      [] p = "b.CSV"     -> <<"b", ".", "C", "S", "V">>
      [] p = "c.csv"     -> <<"c", ".", "c", "s", "v">>
      [] p = "d.Csv"     -> <<"d", ".", "C", "s", "v">>
      [] p = "notes.txt" -> <<"n", ".", "t", "x", "t">>
      [] p = "README"    -> <<"R", "E">>
      [] p = "csv"       -> <<"c", "s", "v">>
      [] p = "sub"       -> <<"s", "u", "b">>
      [] p = "deep"      -> <<"d", "e", "e", "p">>
      [] p = "arch.csv"  -> <<"a", "r", ".", "c", "s", "v">>

\* Path::extension: the part of the file name after its last ".", none
\* (unwrap_or_default: the empty string) when the name has no "." or only a
\* leading one.
extension(name) ==
    LET dots == {i \in 1..Len(name) : name[i] = "."}
        lastDot == CHOOSE i \in dots : \A j \in dots : j <= i
    IN  IF dots = {} \/ lastDot = 1 THEN <<>>
        ELSE SubSeq(name, lastDot + 1, Len(name))

\* u8::to_ascii_lowercase on the characters the model uses.
LowerChar(c) ==
    CASE c = "C" -> "c"
      [] c = "S" -> "s"
      [] c = "V" -> "v"
      [] c = "R" -> "r"
      [] c = "E" -> "e"
      [] OTHER -> c

to_ascii_lowercase(s) == [i \in 1..Len(s) |-> LowerChar(s[i])]

Csv == <<"c", "s", "v">>

(***************************************************************************)
(* The file systems a behaviour can start from.                            *)
(***************************************************************************)
Nested ==
    [children |-> ("root" :> <<"a.csv", "sub", "notes.txt", "csv">>)
                  @@ ("sub" :> <<"b.CSV", "deep", "README">>)
                  @@ ("deep" :> <<"c.csv">>),
     denied   |-> {},
     fs       |-> [x \in {"a.csv", "b.CSV", "c.csv", "notes.txt", "README", "csv"} |->
                     CASE x = "a.csv"  -> Table(NumCols, NumRows)
                       [] x = "b.CSV"  -> Table(NumCols, NumRows)
                       [] x = "c.csv"  -> Table(NumCols - 1, NumRows)
                       [] x = "README" -> <<>>
                       [] OTHER        -> Table(2, 1)]]

Ragged ==
    [children |-> ("root" :> <<"a.csv", "b.CSV", "c.csv">>),
     denied   |-> {},
     fs       |-> [x \in {"a.csv", "b.CSV", "c.csv"} |->
                     CASE x = "a.csv" -> Table(NumCols, NumRows)
                       [] x = "b.CSV" -> ShortRow(NumCols, NumRows)
                       [] x = "c.csv" -> Table(NumCols, NumRows)]]

CsvDirectory ==
    [children |-> ("root" :> <<"a.csv", "arch.csv", "c.csv">>)
                  @@ ("arch.csv" :> <<"d.Csv">>),
     denied   |-> {},
     fs       |-> [x \in {"a.csv", "d.Csv", "c.csv"} |-> Table(NumCols, NumRows)]]

DeniedDirectory ==
    [children |-> ("root" :> <<"a.csv", "sub", "c.csv">>)
                  @@ ("sub" :> <<"b.CSV">>),
     denied   |-> {"sub"},
     fs       |-> [x \in {"a.csv", "b.CSV", "c.csv"} |-> Table(NumCols, NumRows)]]

DeniedFile ==
    [children |-> ("root" :> <<"a.csv", "b.CSV", "c.csv">>),
     denied   |-> {"b.CSV"},
     fs       |-> [x \in {"a.csv", "b.CSV", "c.csv"} |-> Table(NumCols, NumRows)]]

Narrow ==
    [children |-> ("root" :> <<"c.csv", "b.CSV", "a.csv">>),
     denied   |-> {},
     fs       |-> [x \in {"a.csv", "b.CSV", "c.csv"} |->
                     CASE x = "c.csv" -> Table(1, NumRows)
                       [] x = "b.CSV" -> Table(NumCols, 0)
                       [] x = "a.csv" -> LongRow(NumCols, NumRows)]]

Worlds == {Nested, Ragged, CsvDirectory, DeniedDirectory, DeniedFile, Narrow}

is_dir(p) == p \in DOMAIN children

(***************************************************************************)
(* Migration::get_csv_files                                                *)
(***************************************************************************)
RECURSIVE get_csv_files(_), scan_entries(_, _, _)

\* The for loop over the entries of one directory, from entry k on.
scan_entries(entries, k, csv_file_paths) ==
    IF k > Len(entries) THEN [ok |-> TRUE, paths |-> csv_file_paths]
    ELSE
      LET path == entries[k]
          traversal_res == IF is_dir(path) THEN get_csv_files(path)
                           ELSE [ok |-> TRUE, paths |-> <<>>]
          appended == csv_file_paths \o traversal_res.paths
          pushed == IF to_ascii_lowercase(extension(Name(path))) = Csv
                    THEN Append(appended, path)
                    ELSE appended
      IN  IF ~traversal_res.ok THEN [ok |-> FALSE, paths |-> <<>>]
          ELSE scan_entries(entries, k + 1, pushed)

\* fs::read_dir(path)? fails on a directory the process cannot read.
get_csv_files(path) ==
    IF path \in denied THEN [ok |-> FALSE, paths |-> <<>>]
    ELSE scan_entries(children[path], 1, <<>>)

(***************************************************************************)
(* The csv crate, as the program configures it.                            *)
(***************************************************************************)
None == 0 - 1

\* File::open(path)?.read_to_string(&mut content)?: File::open fails on a path
\* the process cannot read, read_to_string fails on a directory.
read_to_string(path) ==
    IF path \in denied \/ is_dir(path) \/ path \notin DOMAIN fs
    THEN [ok |-> FALSE, content |-> <<>>]
    ELSE [ok |-> TRUE, content |-> fs[path]]

\* A writer that opens the file for appending instead of truncating it.
Writer_appending(existing) ==
    [out |-> existing, first_field_count |-> None]

\* csv::Writer::from_path(path)?: File::create truncates the file; the writer
\* is the default one, which fixes the field count at its first record.
Writer_from_path(existing) ==
    [out |-> <<>>, first_field_count |-> None]

\* What the writer puts on disk for a record: a record without fields is
\* written as one quoted empty field.
on_disk(record) ==
    IF record = <<>> THEN <<EmptyField>> ELSE record

\* Writer::write_record: the fields are written, then the field count is
\* checked against the first record's; on a mismatch the fields already
\* written stay in the buffer, which the writer flushes when it is dropped.
write_record(writer, record) ==
    IF writer.first_field_count # None /\ writer.first_field_count # Len(record)
    THEN [ok |-> FALSE,
          writer |-> [writer EXCEPT !.out =
                        IF record = <<>> THEN @ ELSE Append(@, record)]]
    ELSE [ok |-> TRUE,
          writer |-> [out |-> Append(writer.out, on_disk(record)),
                      first_field_count |-> Len(record)]]

\* reader.headers()?: the first record, an empty record for an empty file.
reader_headers(content) ==
    IF content = <<>> THEN <<>> ELSE content[1]

\* One item of reader.records(): csv::Reader::from_reader builds the default,
\* non-flexible reader, which yields Err(UnequalLengths) for a record whose
\* field count differs from the first record's.
record_is_ok(headers, record) ==
    Len(record) = Len(headers)

(***************************************************************************)
(* InsertMigration::insert_column                                          *)
(***************************************************************************)
RECURSIVE insert_header_loop(_, _, _, _, _)
insert_header_loop(headers, column, order, i, new_headers) ==
    IF i >= Len(headers) THEN new_headers
    ELSE insert_header_loop(headers, column, order, i + 1,
            IF i = order - 1
            THEN new_headers \o <<column, headers[i + 1]>>
            ELSE Append(new_headers, headers[i + 1]))

\* A header walk that appends the column when order - 1 is past the last index.
insert_new_headers_appending(headers, column, order) ==
    LET walked == insert_header_loop(headers, column, order, 0, <<>>)
    IN  IF order - 1 >= Len(headers) THEN Append(walked, column) ELSE walked

\* "set headers": i is the 0-based index of enumerate().
insert_new_headers(headers, column, order) ==
    insert_header_loop(headers, column, order, 0, <<>>)

RECURSIVE insert_record_loop(_, _, _, _, _)
insert_record_loop(record, default_value, order, j, new_record) ==
    IF j >= Len(record) THEN new_record
    ELSE insert_record_loop(record, default_value, order, j + 1,
            IF j = order - 1
            THEN new_record \o <<default_value, record[j + 1]>>
            ELSE Append(new_record, record[j + 1]))

\* A record walk that compares the 0-based index with the 1-based order.
insert_new_record_one_based(record, default_value, order) ==
    insert_record_loop(record, default_value, order + 1, 0, <<>>)

\* "set values", the body of the loop for one record.
insert_new_record(record, default_value, order) ==
    insert_record_loop(record, default_value, order, 0, <<>>)

\* "set values": the loop over reader.records(), from record r of the content on.
RECURSIVE insert_records(_, _, _, _, _, _)
insert_records(content, r, headers, default_value, order, writer) ==
    IF r > Len(content) THEN [res |-> "Ok", wrote |-> TRUE, out |-> writer.out]
    ELSE IF ~record_is_ok(headers, content[r])
    THEN [res |-> "Err", wrote |-> TRUE, out |-> writer.out]
    ELSE
      LET w == write_record(writer, insert_new_record(content[r], default_value, order))
      IN  IF ~w.ok THEN [res |-> "Err", wrote |-> TRUE, out |-> w.writer.out]
          ELSE insert_records(content, r + 1, headers, default_value, order, w.writer)

\* The result of the call and the content it leaves in the file (wrote: the
\* file was opened for writing).
insert_column(path, column, default_value, order) ==
    LET read == read_to_string(path)
        content == read.content
        writer == Writer_from_path(content)
        headers == reader_headers(content)
        w == write_record(writer, insert_new_headers(headers, column, order))
    IN  IF ~read.ok THEN [res |-> "Err", wrote |-> FALSE, out |-> <<>>]
        ELSE IF ~w.ok THEN [res |-> "Err", wrote |-> TRUE, out |-> w.writer.out]
        ELSE insert_records(content, 2, headers, default_value, order, w.writer)

(***************************************************************************)
(* ReorderMigration::shift_column                                          *)
(***************************************************************************)
\* Iterator::position(|h| h == column): the 0-based index of the first field
\* equal to column, None when there is none.
position(record, column) ==
    LET hits == {i \in 1..Len(record) : record[i] = column}
    IN  IF hits = {} THEN None
        ELSE (CHOOSE i \in hits : \A k \in hits : i <= k) - 1

\* Vec::remove(index), index 0-based and in range.
remove(vec, index) ==
    SubSeq(vec, 1, index) \o SubSeq(vec, index + 2, Len(vec))

RECURSIVE shift_header_loop(_, _, _, _, _)
shift_header_loop(headers, target_header, order, i, new_headers) ==
    IF i >= Len(headers) THEN new_headers
    ELSE shift_header_loop(headers, target_header, order, i + 1,
            IF i = order - 1
            THEN new_headers \o <<target_header, headers[i + 1]>>
            ELSE Append(new_headers, headers[i + 1]))

\* The header without the moved column (headers), walked to re-insert it.
shift_new_headers(headers, target_header, order) ==
    shift_header_loop(headers, target_header, order, 0, <<>>)

RECURSIVE shift_record_loop(_, _, _, _, _)
shift_record_loop(record, target_value, order, j, new_record) ==
    IF j >= Len(record) THEN new_record
    ELSE shift_record_loop(record, target_value, order, j + 1,
            IF j = order - 1
            THEN new_record \o <<target_value, record[j + 1]>>
            ELSE Append(new_record, record[j + 1]))

\* The record without the moved value (record), walked to re-insert it.
shift_new_record(record, target_value, order) ==
    shift_record_loop(record, target_value, order, 0, <<>>)

\* The column is already in place: every record is copied (r.unwrap()).
RECURSIVE copy_records(_, _, _, _)
copy_records(content, r, headers, writer) ==
    IF r > Len(content) THEN [res |-> "Ok", wrote |-> TRUE, out |-> writer.out]
    ELSE IF ~record_is_ok(headers, content[r])
    THEN [res |-> "Panic", wrote |-> TRUE, out |-> writer.out]
    ELSE
      LET w == write_record(writer, content[r])
      IN  IF ~w.ok THEN [res |-> "Err", wrote |-> TRUE, out |-> w.writer.out]
          ELSE copy_records(content, r + 1, headers, w.writer)

\* "values": the loop over reader.records(), from record r of the content on.
RECURSIVE shift_records(_, _, _, _, _, _)
shift_records(content, r, original_headers, target_header_index, order, writer) ==
    IF r > Len(content) THEN [res |-> "Ok", wrote |-> TRUE, out |-> writer.out]
    ELSE IF ~record_is_ok(original_headers, content[r])
    THEN [res |-> "Err", wrote |-> TRUE, out |-> writer.out]
    ELSE IF target_header_index >= Len(content[r])
    THEN [res |-> "Panic", wrote |-> TRUE, out |-> writer.out]
    ELSE
      LET target_value == content[r][target_header_index + 1]
          record == remove(content[r], target_header_index)
          w == write_record(writer, shift_new_record(record, target_value, order))
      IN  IF ~w.ok THEN [res |-> "Err", wrote |-> TRUE, out |-> w.writer.out]
          ELSE shift_records(content, r + 1, original_headers, target_header_index,
                             order, w.writer)

\* The result of the call and the content it leaves in the file.  A panic
\* unwinds through the writer, which flushes what it has buffered.
shift_column(path, column, order) ==
    LET read == read_to_string(path)
        content == read.content
        writer == Writer_from_path(content)
        original_headers == reader_headers(content)
        target_header_index == position(original_headers, column)
        same == write_record(writer, original_headers)
        target_header == original_headers[target_header_index + 1]
        headers == remove(original_headers, target_header_index)
        w == write_record(writer, shift_new_headers(headers, target_header, order))
    IN  IF ~read.ok THEN [res |-> "Err", wrote |-> FALSE, out |-> <<>>]
        ELSE IF target_header_index = None
        THEN [res |-> "Panic", wrote |-> TRUE, out |-> writer.out]
        ELSE IF target_header_index = order - 1
        THEN IF ~same.ok
             THEN [res |-> "Err", wrote |-> TRUE, out |-> same.writer.out]
             ELSE copy_records(content, 2, original_headers, same.writer)
        ELSE IF ~w.ok THEN [res |-> "Err", wrote |-> TRUE, out |-> w.writer.out]
        ELSE shift_records(content, 2, original_headers, target_header_index,
                           order, w.writer)

(***************************************************************************)
(* The program: main, run, InsertMigration::run, ReorderMigration::run.    *)
(***************************************************************************)
InsertConfigs ==
    {[kind |-> "insert", column |-> NewColumn, default_value |-> DefaultValue,
      order |-> o] : o \in Orders}

ReorderColumns == {H(1), H(2), H(NumCols), Absent}

ReorderConfigs ==
    {[kind |-> "reorder", column |-> c, default_value |-> EmptyField,
      order |-> o] : c \in ReorderColumns, o \in Orders}

Commands == InsertConfigs \cup ReorderConfigs

NoCommand ==
    [kind |-> "none", column |-> EmptyField, default_value |-> EmptyField, order |-> 0]

NoApplication ==
    [kind |-> "none", path |-> "root", column |-> EmptyField, order |-> 0,
     readable |-> FALSE, before |-> <<>>, after |-> <<>>, res |-> "Ok"]

Content(path) == IF path \in DOMAIN fs THEN fs[path] ELSE <<>>

\* A loop that catches the failure of a file and goes on with the next one.
after_file_isolated(res) ==
    "loop"

\* self.insert_column(..)? / self.shift_column(..)? in the loop of
\* Migration::run, and the unwrap() of run on what Migration::run returns:
\* the loop goes on after Ok, the process panics after Err (and after a panic).
after_file(res) ==
    IF res = "Ok" THEN "loop" ELSE "panicked"

Init ==
    /\ \E w \in Worlds :
         /\ children = w.children
         /\ denied = w.denied
         /\ fs = w.fs
         /\ pre = w.fs
    /\ pc = "idle"
    /\ cmd = NoCommand
    /\ files = <<>>
    /\ idx = 1
    /\ printed = <<>>
    /\ runs = 0
    /\ opened = {}
    /\ migrated = <<>>
    /\ failure = "none"
    /\ failedAt = 0
    /\ last = NoApplication

\* The program is invoked: Cli::parse, and the first lines of Migration::run.
Start ==
    /\ pc \in {"idle", "done", "panicked"}
    /\ runs < MaxRuns
    /\ \E c \in Commands : cmd' = c
    /\ pc' = "locate"
    /\ runs' = runs + 1
    /\ files' = <<>>
    /\ idx' = 1
    /\ printed' = <<>>
    /\ pre' = fs
    /\ opened' = {}
    /\ migrated' = <<>>
    /\ failure' = "none"
    /\ failedAt' = 0
    /\ last' = NoApplication
    /\ UNCHANGED <<children, denied, fs>>

\* let files = self.get_csv_files(&path)?; an Err makes run's unwrap() panic.
Locate ==
    /\ pc = "locate"
    /\ LET located == get_csv_files("root")
       IN  /\ files' = located.paths
           /\ pc' = IF located.ok THEN "loop" ELSE "panicked"
           /\ failure' = IF located.ok THEN "none" ELSE "locate"
    /\ UNCHANGED <<children, denied, fs, cmd, idx, printed, runs, pre, opened,
                   migrated, failedAt, last>>

\* One iteration of "for file in files".
Migrate ==
    /\ pc = "loop"
    /\ idx <= Len(files)
    /\ LET path == files[idx]
           r == IF cmd.kind = "insert"
                THEN insert_column(path, cmd.column, cmd.default_value, cmd.order)
                ELSE shift_column(path, cmd.column, cmd.order)
       IN  /\ fs' = IF r.wrote THEN [fs EXCEPT ![path] = r.out] ELSE fs
           /\ opened' = opened \cup {path}
           /\ last' = [kind |-> cmd.kind, path |-> path, column |-> cmd.column,
                       order |-> cmd.order, readable |-> read_to_string(path).ok,
                       before |-> Content(path),
                       after |-> IF r.wrote THEN r.out ELSE Content(path),
                       res |-> r.res]
           /\ migrated' = IF r.res = "Ok"
                          THEN Append(migrated, [path |-> path, content |-> r.out])
                          ELSE migrated
           /\ pc' = after_file(r.res)
           /\ idx' = IF after_file(r.res) = "loop" THEN idx + 1 ELSE idx
           /\ failure' = IF r.res # "Ok" /\ failure = "none" THEN "file" ELSE failure
           /\ failedAt' = IF r.res # "Ok" /\ failure = "none" THEN idx ELSE failedAt
    /\ UNCHANGED <<children, denied, cmd, files, printed, runs, pre>>

\* The loop is over: Migration::run and run return Ok(()).
RunReturns ==
    /\ pc = "loop"
    /\ idx > Len(files)
    /\ pc' = "returned"
    /\ UNCHANGED <<children, denied, fs, cmd, files, idx, printed, runs, pre, opened,
                   migrated, failure, failedAt, last>>

\* What run(cli) returns when it returns: its last expression, Ok(()).
run_result == "Ok"

\* main, after run(cli) returned: unwrap_or_else prints "Migration failed" for
\* an Err, and "Migration done" is printed in every case.
MainReports ==
    /\ pc = "returned"
    /\ printed' = printed
                  \o (IF run_result = "Err" THEN <<"Migration failed">> ELSE <<>>)
                  \o <<"Migration done">>
    /\ pc' = "done"
    /\ UNCHANGED <<children, denied, fs, cmd, files, idx, runs, pre, opened,
                   migrated, failure, failedAt, last>>

Next ==
    \/ Start
    \/ Locate
    \/ Migrate
    \/ RunReturns
    \/ MainReports

Spec == Init /\ [][Next]_vars

(***************************************************************************)
(* Expected results, stated independently of the walks above.              *)
(***************************************************************************)
\* record with x put at 1-based index k, the other fields in order around it.
Spliced(record, k, x) ==
    [i \in 1..(Len(record) + 1) |->
        IF i < k THEN record[i] ELSE IF i = k THEN x ELSE record[i - 1]]

\* record without the field at 0-based index s.
Without(record, s) ==
    [i \in 1..(Len(record) - 1) |-> IF i <= s THEN record[i] ELSE record[i + 1]]

\* record with the field at 0-based index s moved to 0-based index d.
Moved(record, s, d) ==
    Spliced(Without(record, s), d + 1, record[s + 1])

\* The last step applied insert_column / shift_column to a file it could read.
Inserted == last.kind = "insert" /\ last.readable
Reordered == last.kind = "reorder" /\ last.readable

HasCsvExtension(p) ==
    LET e == extension(Name(p))
    IN  /\ Len(e) = 3
        /\ e[1] \in {"c", "C"}
        /\ e[2] \in {"s", "S"}
        /\ e[3] \in {"v", "V"}

Located == pc \in {"loop", "returned", "done"} \/ failure = "file"

(***************************************************************************)
(* The claims.                                                             *)
(***************************************************************************)
\* C1: insert_column with order k, 1 <= k <= n, on a table with an n-column
\* header and n-field rows succeeds and writes every record, in order, with
\* the new field (the column name in the header, the default value in a data
\* row) at 0-based index k - 1 and the original fields in order around it.
InsertRoundTrip ==
    (/\ Inserted
     /\ last.before # <<>>
     /\ Rect(last.before)
     /\ 1 <= last.order
     /\ last.order <= Len(last.before[1]))
    => /\ last.res = "Ok"
       /\ fs[last.path] = last.after
       /\ Len(last.after) = Len(last.before)
       /\ last.after[1] = Spliced(last.before[1], last.order, cmd.column)
       /\ \A r \in 2..Len(last.before) :
            last.after[r] = Spliced(last.before[r], last.order, cmd.default_value)

InsertRoundTripWitness ==
    /\ Inserted
    /\ Rect(last.before)
    /\ Len(last.before) = NumRows + 1
    /\ Len(last.before[1]) = NumCols
    /\ last.order = NumCols
    /\ last.res = "Ok"
    /\ last.after[1][NumCols] = NewColumn
    /\ last.after[NumRows + 1][NumCols] = DefaultValue

\* C2: shift_column with target position t, 1 <= t <= n and t - 1 # s, on a
\* table with an n-column header and n-field rows, where the column first
\* occurs at 0-based index s, moves the field at index s of every record to
\* index t - 1 and keeps the other fields in order (for t = n too: the column
\* becomes the last one).
ReorderRoundTrip ==
    LET s == position(last.before[1], last.column)
    IN  (/\ Reordered
         /\ last.before # <<>>
         /\ Rect(last.before)
         /\ s # None
         /\ 1 <= last.order
         /\ last.order <= Len(last.before[1])
         /\ last.order - 1 # s)
        => /\ last.res = "Ok"
           /\ Len(last.after) = Len(last.before)
           /\ \A r \in 1..Len(last.before) :
                last.after[r] = Moved(last.before[r], s, last.order - 1)

\* C3: shift_column on a file whose header has no field equal to the column
\* name fails and leaves the content of the file as it was.
ReorderMissingColumn ==
    (/\ Reordered
     /\ position(reader_headers(last.before), last.column) = None)
    => /\ last.res # "Ok"
       /\ fs[last.path] = last.before

\* C4: shift_column on a file whose column is already at 0-based index
\* order - 1 succeeds and rewrites the file with the records it read.
ReorderIdentity ==
    (/\ Reordered
     /\ last.before # <<>>
     /\ position(last.before[1], last.column) # None
     /\ position(last.before[1], last.column) = last.order - 1)
    => /\ last.res = "Ok"
       /\ fs[last.path] = last.before

\* C5: get_csv_files returns exactly the regular files under the root whose
\* extension is "csv" in any letter case, each once, and no directory.
RecursiveDiscovery ==
    Located =>
        /\ \A i \in 1..Len(files) : ~is_dir(files[i]) /\ HasCsvExtension(files[i])
        /\ \A p \in DOMAIN fs :
             HasCsvExtension(p) => Cardinality({i \in 1..Len(files) : files[i] = p}) = 1

\* C6: insert_column with order > n on a table with an n-column header and
\* n-field rows succeeds and writes the table it read: the column is absent.
InsertOutOfRange ==
    (/\ Inserted
     /\ last.before # <<>>
     /\ Rect(last.before)
     /\ last.order > Len(last.before[1]))
    => /\ last.res = "Ok"
       /\ fs[last.path] = last.before

InsertOutOfRangeWitness ==
    /\ Inserted
    /\ Rect(last.before)
    /\ Len(last.before) = NumRows + 1
    /\ last.order = Len(last.before[1]) + 1
    /\ last.res = "Ok"
    /\ fs[last.path] = last.before

\* C7: when processing the file at index i of the located files is the first
\* to fail, the run has stopped: every file before i holds the content its
\* processing wrote, and no file after i was opened or changed; when locating
\* fails, no file was opened or changed.
BatchAbort ==
    /\ failure = "locate" => pc = "panicked" /\ fs = pre /\ opened = {}
    /\ failure = "file" =>
         /\ pc = "panicked"
         /\ idx = failedAt
         /\ Len(migrated) = failedAt - 1
         /\ \A j \in 1..Len(files) :
              /\ j < failedAt =>
                   /\ migrated[j].path = files[j]
                   /\ fs[files[j]] = migrated[j].content
              /\ j > failedAt =>
                   /\ files[j] \notin opened
                   /\ Content(files[j]) = IF files[j] \in DOMAIN pre
                                          THEN pre[files[j]] ELSE <<>>

BatchAbortWitness ==
    /\ failure = "file"
    /\ failedAt = 2
    /\ Len(files) = 3
    /\ fs[files[1]] # pre[files[1]]
    /\ fs[files[3]] = pre[files[3]]

\* C8: a run that processed every file reports "Migration done" and no
\* failure; a run in which locating or processing failed reports the failure
\* and does not report completion.
RunStatus ==
    pc \in {"done", "panicked"} =>
        /\ failure = "none" => printed = <<"Migration done">>
        /\ failure # "none" =>
             /\ \E i \in 1..Len(printed) : printed[i] = "Migration failed"
             /\ \A i \in 1..Len(printed) : printed[i] # "Migration done"

\* C9: insert_column on a file with a data row whose field count differs from
\* the header's succeeds; every record gets the new field before its field at
\* 0-based index order - 1 if it has one and is copied otherwise.
RaggedRows ==
    (/\ Inserted
     /\ last.before # <<>>
     /\ ~Rect(last.before))
    => /\ last.res = "Ok"
       /\ Len(last.after) = Len(last.before)
       /\ \A r \in 1..Len(last.before) :
            last.after[r] =
                IF 1 <= last.order /\ last.order <= Len(last.before[r])
                THEN Spliced(last.before[r], last.order,
                             IF r = 1 THEN cmd.column ELSE cmd.default_value)
                ELSE last.before[r]

\* C10: a successful insert_column or shift_column, whatever its order, on a
\* file whose data rows all have the header's field count leaves a file whose
\* data rows all have the header's field count; so does any sequence of them.
RectangularPreserved ==
    (/\ last.kind # "none"
     /\ last.readable
     /\ Rect(last.before)
     /\ last.res = "Ok")
    => /\ fs[last.path] = last.after
       /\ Rect(last.after)

RectangularPreservedWitness ==
    /\ runs = MaxRuns
    /\ Reordered
    /\ last.res = "Ok"
    /\ Len(last.before) = NumRows + 1
    /\ Rect(last.before)
    /\ Len(last.before[1]) = NumCols + 1
    /\ Len(last.after[1]) = NumCols
    /\ Rect(last.after)

====
